---- MODULE Spec2Model ----
(***************************************************************************)
(* Model of the Atomberg fan control protocol layer:                       *)
(*   - FanStateListener (control_gui.py): the background thread that binds *)
(*     UDP port 5625, receives state broadcasts, frames them, gates them   *)
(*     through the processed_messages cache, decodes the bitfield and      *)
(*     emits a DeviceState dict through the state_received signal.         *)
(*   - FanControlApp / FanControlWindow (control_gui.py): the main thread, *)
(*     which takes the queued signals (device registry, control screen)    *)
(*     and turns user actions into command datagrams.                      *)
(*   - control.py: the command-line script that sends one command.         *)
(* The listener thread is a small state machine over pc; the main thread   *)
(* interferes only through stop() and by draining the signal queue.        *)
(***************************************************************************)
EXTENDS Integers, Sequences, FiniteSets, TLC

\* ------------------------------------------------------------------ bounds
\* Highest message id put on the wire in mixed traffic (Spec).
MaxId == 3
\* Highest message id put on the wire in id-carrying traffic (SpecCache).
MaxCacheId == 102
\* Signals queued towards the main thread before the listener is throttled.
MaxQueue == 2
\* Command sockets left open before a further one is no longer counted.
MaxLeaked == 1
\* Emissions after a stop request before a further one is no longer counted.
MaxLate == 2

\* ------------------------------------------------------- program constants
\* len(self.processed_messages) > 100
HighWater == 100
\* list(self.processed_messages)[-50:]
KeepCount == 50

\* message_id absent, "" or any other falsy JSON value
EmptyId == 0
\* message_id that is truthy but not hashable (a JSON array or object)
Unhashable == 0 - 1

VARIABLES
    pc,                 \* position of the listener thread in run()
    running,            \* self.running
    sock,               \* the UDP socket of run(): "none", "open", "closed"
    ended,              \* how run() ended: "none", "stop", "bind", "exception"
    processed_messages, \* self.processed_messages
    emitted,            \* state_received signals queued for the main thread
    nextId,             \* smallest message id never inserted so far
    last_outcome,       \* how the last received payload left the loop body
    last_trimmed,       \* whether handling that payload cut the cache down
    watch,              \* the message id whose pair of receipts is observed
    pair,               \* observation of the two receipts of id watch
    probe,              \* observation of a refused receipt of id watch
    late,               \* emissions made since stop() was called
    heard,              \* <<source ip, device_id>> of the broadcasts emitted
    device_ids,         \* FanControlApp.device_ids, in the order of its keys
    screen,             \* the widget shown by FanControlApp.stack
    win,                \* the fields and widgets of FanControlWindow
    wire,               \* command datagrams sent by the last handler or script
    attempts,           \* how the sends of the last handler or script went
    cmd_socks,          \* command sockets opened and not closed
    cli,                \* what the last run of control.py read, how it ended
    program,            \* the script that was launched
    decoded             \* the last value decoded on its own, with its result

listenerVars == <<pc, running, sock, ended, processed_messages, emitted,
                  nextId, last_outcome, last_trimmed, watch, pair, probe,
                  late>>

\* What the listener thread never touches.
appVars == <<device_ids, screen, win, wire, attempts, cmd_socks, cli,
             program, decoded>>

vars == <<pc, running, sock, ended, processed_messages, emitted, nextId,
          last_outcome, last_trimmed, watch, pair, probe, late, heard,
          device_ids,
          screen, win, wire, attempts, cmd_socks, cli, program, decoded>>

\* ----------------------------------------------------------- BitfieldCodec
RECURSIVE BitAnd(_, _)
BitAnd(a, b) ==
    IF a = 0 \/ b = 0 THEN 0
    ELSE (a % 2) * (b % 2) + 2 * BitAnd(a \div 2, b \div 2)

\* Python round(num / den) for den > 0: round half to even.
Round(num, den) ==
    LET q == num \div den
        r == num % den
    IN  IF 2 * r < den THEN q
        ELSE IF 2 * r > den THEN q + 1
        ELSE IF q % 2 = 0 THEN q ELSE q + 1

ColorMode(cool, warm) ==
    IF cool /\ warm THEN "Daylight"
    ELSE IF cool THEN "Cool"
    ELSE IF warm THEN "Warm"
    ELSE "Off"

\* A parsed integer value v = hi * 65536 + lo, kept as its two 16-bit halves
\* (the checker's integers are 32-bit signed, the device's are unsigned).
Value(hi, lo) == [hi |-> hi, lo |-> lo]

\* The same mask applied sixteen bits too low.
HighBitsOfLowHalf(maskHi, value) == BitAnd(maskHi, value.lo)

\* (mask & value) / 65536 for a mask whose low half is zero.
HighBits(maskHi, value) == BitAnd(maskHi, value.hi)

decode_state_value(value) ==
    LET cool == BitAnd(8, value.lo) > 0
        warm == BitAnd(32768, value.lo) > 0
    IN  [power |-> BitAnd(16, value.lo) > 0,
         led |-> BitAnd(32, value.lo) > 0,
         sleep |-> BitAnd(128, value.lo) > 0,
         speed |-> BitAnd(7, value.lo),
         timer |-> Round(HighBits(15, value) * 65536, 65536),
         timer_elapsed_mins |-> Round(HighBits(65280, value) * 4, 256),
         brightness |-> Round(BitAnd(32512, value.lo), 256),
         cool |-> cool,
         warm |-> warm,
         color_mode |-> ColorMode(cool, warm)]

\* -------------------------------------------------------------- datagrams
\* A sub-field of state_string: either the text of an integer or other text.
IntField(v) == [int |-> TRUE, val |-> Value(0, v)]
TextField == [int |-> FALSE, val |-> Value(0, 0)]

\* state_string values put on the wire, as their comma-separated sub-fields.
StateStrings == { <<IntField(176), IntField(0)>>, <<TextField, IntField(0)>> }

DeviceIds == {"", "dev1"}

\* A received payload:
\*   enc:  "utf8" plain text, "hex" hex-encoded text, "binary" not UTF-8,
\*         "hexlike" hex digits only that are not hex-encoded text (the
\*         ValueError of line 84 falls back to the text itself, which is
\*         then a JSON number or not JSON at all)
\*   json: "invalid" not JSON, "number" a JSON scalar, "list" a JSON array,
\*         "object" a JSON object
\*   ss_type: "absent" no state_string key, "nonstring" state_string is not
\*         a string, "string" state_string is the text ss
Datagram(enc, json, ss_type, ss, mid, dev) ==
    [enc |-> enc, json |-> json, ss_type |-> ss_type, ss |-> ss,
     mid |-> mid, dev |-> dev]

\* Message ids a datagram may carry in the current state: none, an
\* unhashable one, the id inserted last, the next new id and the watched id.
Mids(max) ==
    LET top == IF nextId <= max THEN nextId ELSE max
    IN  {EmptyId, Unhashable} \cup ({nextId - 1, nextId, watch} \cap (1..top))

\* Id-carrying traffic: well-framed broadcasts of one device, with and
\* without a numeric bitfield.
CacheDatagrams ==
    { Datagram("utf8", "object", "string", s, m, "dev1") :
        s \in StateStrings, m \in Mids(MaxCacheId) \ {Unhashable} }

\* Mixed traffic: every shape of payload.
Datagrams ==
    { Datagram("binary", "invalid", "absent", <<>>, EmptyId, "") }
    \cup { Datagram(e, j, "absent", <<>>, EmptyId, "") :
             e \in {"utf8", "hex"}, j \in {"invalid", "number", "list"} }
    \cup { Datagram("hexlike", j, "absent", <<>>, EmptyId, "") :
             j \in {"invalid", "number"} }
    \cup { Datagram("utf8", "object", "absent", <<>>, m, "dev1") : m \in Mids(MaxId) }
    \cup { Datagram("utf8", "object", "nonstring", <<>>, m, "dev1") : m \in Mids(MaxId) }
    \cup { Datagram(e, "object", "string", s, m, dv) :
             e \in {"utf8", "hex"}, s \in StateStrings, m \in Mids(MaxId),
             dv \in DeviceIds }

\* ----------------------------------------------------------- MessageFramer
\* What lines 75-92 make of a payload:
\*   "error"    an exception caught by `except Exception` (logged)
\*   "notjson"  json.JSONDecodeError (ignored)
\*   "skip"     no state_string key: `continue`
\*   "envelope" a JSON value carrying state_string
FrameOutcome(d) ==
    IF d.enc = "binary" THEN "error"
    ELSE IF d.json = "invalid" THEN "notjson"
    ELSE IF d.json = "number" THEN "error"
    ELSE IF d.json = "list" THEN "skip"
    ELSE IF d.ss_type = "absent" THEN "skip"
    ELSE "envelope"

\* ------------------------------------------------------ DeduplicationCache
\* The gate without its membership test.
IsDuplicateNever(mid, cache) == FALSE

\* Lines 96-97: a non-empty id that is already cached.
IsDuplicate(mid, cache) == mid # EmptyId /\ mid \in cache

\* The insertion without its `if message_id`.
InsertAny(mid, cache) == cache \cup {mid}

\* The gate without its insertion.
InsertNothing(mid, cache) == cache

\* Lines 98-99.
Insert(mid, cache) == IF mid # EmptyId THEN cache \cup {mid} ELSE cache

\* Number of members of S that come after x in the iteration order by id.
Rank(x, S) == Cardinality({y \in S : y > x})

\* set(list(S)[-50:]): the iteration order of a Python set of strings is
\* unrelated to insertion order, so the 50 members kept are not determined.
\* The outcomes kept here are windows of 50 in id order: the 50 newest, the
\* 50 after the newest one, and the 50 oldest.
\* The cache without its cap.
TrimNever(S) == {S}

TrimOutcomes(S) ==
    IF Cardinality(S) > HighWater
    THEN { {x \in S : Rank(x, S) \in k..(k + KeepCount - 1)} :
             k \in {0, 1, Cardinality(S) - KeepCount} }
    ELSE {S}

\* ------------------------------------------------------- BroadcastListener
\* The gate applied to every payload that names an id, framed or not.
ReachesGateUnframed(d) == d.mid # Unhashable

\* The gate of lines 95-99 is reached and raises nothing.
ReachesGate(d) == FrameOutcome(d) = "envelope" /\ d.mid # Unhashable

\* The decoder without its int() conversion failing.
DecodesAnyText(d) == d.ss_type = "string" /\ Len(d.ss) > 0

\* Lines 106-110: state_string splits and its first sub-field is an integer.
Decodes(d) == d.ss_type = "string" /\ Len(d.ss) > 0 /\ d.ss[1].int

\* The emitted record keeping only the decoded sub-field as its raw state.
DeviceStateFirstFieldOnly(d) ==
    decode_state_value(d.ss[1].val)
        @@ [device_id |-> d.dev, raw_state |-> <<d.ss[1]>>]

\* Lines 109-112: the dict handed to state_received.emit.
DeviceState(d) ==
    decode_state_value(d.ss[1].val)
        @@ [device_id |-> d.dev, raw_state |-> d.ss]

\* The loop body without its `except Exception` handlers.
PcAfterHandleUncaught(d) ==
    IF FrameOutcome(d) = "error" THEN "done" ELSE "loop"

\* Position of the thread once the handlers of lines 115-125 have run.
PcAfterHandle(d) == "loop"

\* run() closing its socket only after the loop, with no finally clause.
SockAfterRunNoFinally(cause) == IF cause = "stop" THEN "closed" ELSE "open"

\* Socket state once the finally clause of lines 127-128 has run.
SockAfterRun(cause) == "closed"

\* A broadcast that is valid JSON with a state_string whose first sub-field
\* is an integer.
WellFormed(d) == ReachesGate(d) /\ Decodes(d)

\* Observation of the first two well-formed receipts of id watch, the first
\* one arriving while the id is not cached.
PairAfter(d, emits, trims) ==
    LET mine == WellFormed(d) /\ d.mid = watch
        opens == mine /\ ~pair.first /\ watch \notin processed_messages
        closes == mine /\ pair.first /\ ~pair.second
        counts == opens \/ closes
        open1 == pair.first \/ opens
        second1 == pair.second \/ closes
    IN  [first |-> open1,
         second |-> second1,
         between |-> pair.between \/ (pair.first /\ ~pair.second /\ ~mine),
         emits |-> IF counts /\ emits THEN pair.emits + 1 ELSE pair.emits,
         trimmed |-> pair.trimmed \/ (trims /\ open1 /\ ~second1)]

\* The observation is not made.
ProbeOff == [bad |-> "off", gated |-> FALSE, next |-> "none",
             trimmed |-> FALSE]

\* No refused receipt of id watch seen yet.
InitProbe == [bad |-> "none", gated |-> FALSE, next |-> "none",
              trimmed |-> FALSE]

\* Observation of the first receipt of id watch that is refused while the
\* id is not cached, before the gate ("frame") or by the decoder
\* ("decode"), and of the first well-formed receipt of the id after it:
\* whether another receipt of the id reached the gate in between, and
\* whether the cache was cut down from the refusal (included) on.
ProbeAfter(d, out, trims) ==
    LET mine == d.mid = watch
        refused == FrameOutcome(d) # "envelope" \/ out = "undecoded"
        opens == /\ probe.bad = "none"
                 /\ mine /\ refused
                 /\ watch \notin processed_messages
        waiting == probe.bad # "none" /\ probe.next = "none"
        closes == waiting /\ mine /\ WellFormed(d)
        bad1 == IF opens
                THEN IF FrameOutcome(d) # "envelope" THEN "frame"
                     ELSE "decode"
                ELSE probe.bad
        next1 == IF closes
                 THEN IF out = "emitted" THEN "emitted" ELSE "discarded"
                 ELSE probe.next
    IN  IF probe.bad = "off" THEN probe ELSE
        [bad |-> bad1,
         gated |-> probe.gated \/ (waiting /\ mine /\ ~closes /\ ReachesGate(d)),
         next |-> next1,
         trimmed |-> probe.trimmed
                       \/ (trims /\ bad1 # "none" /\ probe.next = "none")]

\* The way one payload leaves the loop body (lines 74-119):
\*   "error", "notjson", "skip" as in FrameOutcome; "error" also for the
\*   TypeError of an unhashable message_id and the AttributeError of a
\*   state_string that is not text; "duplicate" the `continue` of line 97;
\*   "undecoded" decode_state_value returned None; "emitted" line 113.
Outcome(d, cache) ==
    IF FrameOutcome(d) # "envelope" THEN FrameOutcome(d)
    ELSE IF d.mid = Unhashable THEN "error"
    ELSE IF IsDuplicate(d.mid, cache) THEN "duplicate"
    ELSE IF d.ss_type # "string" THEN "error"
    ELSE IF ~Decodes(d) THEN "undecoded"
    ELSE "emitted"

\* Lines 74-119 for one received payload.
HandleDatagram(d) ==
    LET out == Outcome(d, processed_messages)
    IN  /\ last_outcome' = out
        /\ IF ReachesGate(d) /\ ~IsDuplicate(d.mid, processed_messages)
           THEN LET added == Insert(d.mid, processed_messages)
                IN  \E kept \in TrimOutcomes(added) :
                      /\ processed_messages' = kept
                      /\ last_trimmed' = (Cardinality(added) > HighWater)
                      /\ emitted' = IF out = "emitted"
                                    THEN Append(emitted, DeviceState(d))
                                    ELSE emitted
                      /\ nextId' = IF d.mid = nextId THEN nextId + 1
                                   ELSE nextId
                      /\ pair' = PairAfter(d, out = "emitted",
                                           Cardinality(added) > HighWater)
                      /\ probe' = ProbeAfter(d, out,
                                             Cardinality(added) > HighWater)
           ELSE /\ UNCHANGED <<processed_messages, emitted, nextId>>
                /\ last_trimmed' = FALSE
                /\ pair' = PairAfter(d, FALSE, FALSE)
                /\ probe' = ProbeAfter(d, out, FALSE)

\* threading.Thread.start(): run() opens and configures the socket.
Start ==
    /\ pc = "new"
    /\ pc' = "bind"
    /\ sock' = "open"
    /\ UNCHANGED <<running, ended, processed_messages, emitted, nextId,
                   last_outcome, last_trimmed, watch, pair>>
    /\ UNCHANGED <<heard, probe, late, appVars>>

\* sock.bind(('', 5625)) succeeds.
BindOk ==
    /\ pc = "bind"
    /\ pc' = "loop"
    /\ UNCHANGED <<running, sock, ended, processed_messages, emitted,
                   nextId, last_outcome, last_trimmed, watch, pair>>
    /\ UNCHANGED <<heard, probe, late, appVars>>

\* sock.bind raises: the exception leaves run() through the finally clause.
BindFail ==
    /\ pc = "bind"
    /\ pc' = "done"
    /\ sock' = SockAfterRun("bind")
    /\ ended' = "bind"
    /\ UNCHANGED <<running, processed_messages, emitted, nextId,
                   last_outcome, last_trimmed, watch, pair>>
    /\ UNCHANGED <<heard, probe, late, appVars>>

\* `while True`: the body is entered whatever the flag.
LoopEnterUnconditional ==
    /\ pc = "loop"
    /\ pc' = "recv"
    /\ UNCHANGED <<running, sock, ended, processed_messages, emitted,
                   nextId, last_outcome, last_trimmed, watch, pair>>
    /\ UNCHANGED <<heard, probe, late, appVars>>

\* while self.running: enter the body.
LoopEnter ==
    /\ pc = "loop"
    /\ running
    /\ pc' = "recv"
    /\ UNCHANGED <<running, sock, ended, processed_messages, emitted,
                   nextId, last_outcome, last_trimmed, watch, pair>>
    /\ UNCHANGED <<heard, probe, late, appVars>>

\* The loop left at its test whatever the flag.
LoopExitUnconditional ==
    /\ pc = "loop"
    /\ pc' = "done"
    /\ sock' = SockAfterRun("stop")
    /\ ended' = "stop"
    /\ UNCHANGED <<running, processed_messages, emitted, nextId,
                   last_outcome, last_trimmed, watch, pair>>
    /\ UNCHANGED <<heard, probe, late, appVars>>

\* while self.running: the flag is down, run() returns through finally.
LoopExit ==
    /\ pc = "loop"
    /\ ~running
    /\ pc' = "done"
    /\ sock' = SockAfterRun("stop")
    /\ ended' = "stop"
    /\ UNCHANGED <<running, processed_messages, emitted, nextId,
                   last_outcome, last_trimmed, watch, pair>>
    /\ UNCHANGED <<heard, probe, late, appVars>>

\* The two fans, in the order of the keys of FanControlApp.device_ids.
IpOrder == <<"192.168.29.14", "192.168.29.15">>

\* recvfrom returns a payload sent from addr, which is handled to the end
\* of the body; addr is read by nothing.
RecvFrom(d, addr) ==
    /\ pc = "recv"
    /\ Len(emitted) < MaxQueue
    /\ HandleDatagram(d)
    /\ pc' = PcAfterHandle(d)
    /\ heard' = IF Len(emitted') > Len(emitted)
                THEN heard \cup {<<addr, d.dev>>}
                ELSE heard
    /\ late' = IF Len(emitted') > Len(emitted) /\ ~running /\ late < MaxLate
               THEN late + 1
               ELSE late
    /\ UNCHANGED <<running, sock, ended, watch, appVars>>

\* recvfrom returns a payload of the first fan.
RecvData(d) == RecvFrom(d, IpOrder[1])

\* recvfrom raises socket.timeout, or another Exception that is logged.
RecvNoData ==
    /\ pc = "recv"
    /\ pc' = "loop"
    /\ UNCHANGED <<running, sock, ended, processed_messages, emitted,
                   nextId, last_outcome, last_trimmed, watch, pair>>
    /\ UNCHANGED <<heard, probe, late, appVars>>

\* An exception that is not an Exception leaves the loop; finally closes.
LoopEscape ==
    /\ pc \in {"loop", "recv"}
    /\ pc' = "done"
    /\ sock' = SockAfterRun("exception")
    /\ ended' = "exception"
    /\ UNCHANGED <<running, processed_messages, emitted, nextId,
                   last_outcome, last_trimmed, watch, pair>>
    /\ UNCHANGED <<heard, probe, late, appVars>>

\* FanStateListener.stop(), called by closeEvent once the thread is started.
Stop ==
    /\ pc # "new"
    /\ running' = FALSE
    /\ UNCHANGED <<pc, sock, ended, processed_messages, emitted, nextId,
                   last_outcome, last_trimmed, watch, pair>>
    /\ UNCHANGED <<heard, probe, late, appVars>>

(***************************************************************************)
(* Command encoding: json.dumps of a one-level dict of booleans and        *)
(* integers, as a sequence of characters and literals.                     *)
(***************************************************************************)

\* A dict is the sequence of its <<key, value>> members in insertion order.
JBool(b) == [type |-> "bool", n |-> IF b THEN 1 ELSE 0]
JInt(n) == [type |-> "int", n |-> n]

DigitChars == <<"0", "1", "2", "3", "4", "5", "6", "7", "8", "9">>

RECURSIVE Digits(_)
Digits(n) ==
    IF n < 10
    THEN <<DigitChars[n + 1]>>
    ELSE Digits(n \div 10) \o <<DigitChars[(n % 10) + 1]>>

ValueText(v) ==
    IF v.type = "bool"
    THEN <<IF v.n = 1 THEN "true" ELSE "false">>
    ELSE IF v.n < 0 THEN <<"-">> \o Digits(0 - v.n) ELSE Digits(v.n)

MemberText(m) == <<"\"", m[1], "\"", ":">> \o ValueText(m[2])

RECURSIVE MembersText(_)
MembersText(command) ==
    IF command = <<>> THEN <<>>
    ELSE IF Len(command) = 1 THEN MemberText(command[1])
    ELSE MemberText(command[1]) \o <<",">> \o MembersText(Tail(command))

\* The body that omits the values of the members.
json_dumps_keys_only(command) ==
    <<"{">> \o MembersText([i \in DOMAIN command |->
                               <<command[i][1], JInt(0)>>]) \o <<"}">>

json_dumps(command) == <<"{">> \o MembersText(command) \o <<"}">>

\* int() of a line of input: the value, or ValueError.
IsDigits(t) ==
    /\ t # <<>>
    /\ \A i \in DOMAIN t : \E k \in DOMAIN DigitChars : DigitChars[k] = t[i]

IsIntText(t) ==
    \/ IsDigits(t)
    \/ t # <<>> /\ t[1] = "-" /\ IsDigits(Tail(t))

DigitValue(c) == (CHOOSE k \in DOMAIN DigitChars : DigitChars[k] = c) - 1

RECURSIVE DigitsValue(_)
DigitsValue(t) ==
    IF t = <<>> THEN 0
    ELSE DigitsValue(SubSeq(t, 1, Len(t) - 1)) * 10 + DigitValue(t[Len(t)])

ParseInt(t) ==
    IF t[1] = "-" THEN 0 - DigitsValue(Tail(t)) ELSE DigitsValue(t)

\* json.loads of such a body: the members between the braces, cut at the
\* commas.
RECURSIVE ParseMembers(_)
ParseMembers(t) ==
    IF t = <<>> THEN <<>>
    ELSE LET commas == {i \in DOMAIN t : t[i] = ","}
             cut == IF commas = {} THEN Len(t) + 1
                    ELSE CHOOSE i \in commas : \A j \in commas : i <= j
             text == SubSeq(t, 5, cut - 1)
             value == IF text = <<"true">> THEN JBool(TRUE)
                      ELSE IF text = <<"false">> THEN JBool(FALSE)
                      ELSE JInt(ParseInt(text))
         IN  <<<<t[2], value>>>> \o ParseMembers(SubSeq(t, cut + 1, Len(t)))

json_loads(body) == ParseMembers(SubSeq(body, 2, Len(body) - 1))

(***************************************************************************)
(* FanControlWindow: the control screen.                                   *)
(***************************************************************************)

SliderMin == 0
SliderMax == 6
TimerButtons == 0 .. 4

InitWindow ==
    [target_port |-> 5600, current_fan |-> "", current_ip |-> "",
     current_speed |-> 0, led_on |-> FALSE, sleep_mode |-> FALSE,
     power_on |-> FALSE, current_timer |-> 0, updating_ui |-> FALSE,
     power_btn |-> FALSE, speed_slider |-> 0, led_btn |-> FALSE,
     sleep_btn |-> FALSE, timer_btns |-> {0}, status_label |-> "Ready"]

\* A handler leaves the window w and the commands it hands to send_command.
Done(w, cmds) == [win |-> w, cmds |-> cmds]

set_fan(w, fan_name, ip) ==
    [w EXCEPT !.current_fan = fan_name, !.current_ip = ip,
              !.status_label = "Connected"]

toggle_power(w) ==
    IF w.updating_ui THEN Done(w, <<>>)
    ELSE LET on == ~w.power_on
         IN  Done([w EXCEPT !.power_on = on],
                  << <<<<"power", JBool(on)>>>> >>)

\* The handler of valueChanged without its guard on the update flag.
on_speed_changed_unguarded(w, value) ==
    Done([w EXCEPT !.current_speed = value],
         << <<<<"speed", JInt(value)>>>> >>)

on_speed_changed(w, value) ==
    IF w.updating_ui THEN Done(w, <<>>)
    ELSE Done([w EXCEPT !.current_speed = value],
              << <<<<"speed", JInt(value)>>>> >>)

\* QSlider.setValue: the value is brought into the range of the slider and
\* valueChanged is emitted when it differs from the one shown.
SetSliderValue(w, value) ==
    LET v == IF value < SliderMin THEN SliderMin
             ELSE IF value > SliderMax THEN SliderMax ELSE value
    IN  IF v = w.speed_slider THEN Done(w, <<>>)
        ELSE on_speed_changed([w EXCEPT !.speed_slider = v], v)

change_speed_delta(w, delta) ==
    LET sum == w.current_speed + delta
        capped == IF sum > 6 THEN 6 ELSE sum
        new_speed == IF capped < 0 THEN 0 ELSE capped
    IN  SetSliderValue(w, new_speed)

toggle_led(w) ==
    IF w.updating_ui THEN Done(w, <<>>)
    ELSE Done([w EXCEPT !.led_on = w.led_btn],
              << <<<<"led", JBool(w.led_btn)>>>> >>)

toggle_sleep(w) ==
    IF w.updating_ui THEN Done(w, <<>>)
    ELSE Done([w EXCEPT !.sleep_mode = w.sleep_btn],
              << <<<<"sleep", JBool(w.sleep_btn)>>>> >>)

set_timer(w, value) ==
    IF w.updating_ui THEN Done(w, <<>>)
    ELSE Done([w EXCEPT !.timer_btns = {i \in TimerButtons : i = value},
                        !.current_timer = value],
              << <<<<"timer", JInt(value)>>>> >>)

request_state_refresh(w) ==
    Done([w EXCEPT !.status_label = "Waiting"], <<>>)

update_from_state(w, state) ==
    LET w1 == [w EXCEPT !.updating_ui = TRUE,
                        !.power_on = state.power,
                        !.power_btn = state.power,
                        !.current_speed = state.speed]
        slid == SetSliderValue(w1, state.speed)
        w2 == [slid.win EXCEPT
                   !.led_on = state.led, !.led_btn = state.led,
                   !.sleep_mode = state.sleep, !.sleep_btn = state.sleep,
                   !.current_timer = state.timer,
                   !.timer_btns = {i \in TimerButtons : i = state.timer},
                   !.status_label = "Synchronized",
                   !.updating_ui = FALSE]
    IN  Done(w2, slid.cmds)

(***************************************************************************)
(* send_command: one datagram per command.                                 *)
(***************************************************************************)

\* socket() raises, sendto raises, or both return.
SendOutcomes == {"sent", "socket_error", "sendto_error"}

Destination(w) == <<w.current_ip, w.target_port>>

CommandDatagram(to, body) == [to |-> to, body |-> body]

\* The label after a send whose exception handler shows nothing.
StatusAfterSendSilent(w, outcome) ==
    IF outcome = "sent" THEN "Sent" ELSE w.status_label

StatusAfterSend(w, outcome) == IF outcome = "sent" THEN "Sent" ELSE "Error"

\* Sockets left open by a send: sock.close() is skipped when sendto raises,
\* and the socket is then closed only when its object is reclaimed, at once
\* or later depending on the interpreter.
SocksAfterSend(socks, outcome) ==
    IF outcome = "sendto_error" THEN {socks, socks + 1} ELSE {socks}

\* A call of the send with its command, and how it went.
Attempt(command, outcome) == [command |-> command, outcome |-> outcome]

send_command(w, command) ==
    \E outcome \in SendOutcomes :
        /\ outcome = "sendto_error" => cmd_socks < MaxLeaked
        /\ wire' = IF outcome = "sent"
                   THEN <<CommandDatagram(Destination(w),
                                          json_dumps(command))>>
                   ELSE <<>>
        /\ attempts' = <<Attempt(command, outcome)>>
        /\ cmd_socks' \in SocksAfterSend(cmd_socks, outcome)
        /\ win' = [w EXCEPT !.status_label = StatusAfterSend(w, outcome)]

\* The window a handler leaves, after the send it asks for.
Perform(res) ==
    IF res.cmds = <<>>
    THEN /\ win' = res.win
         /\ wire' = <<>>
         /\ attempts' = <<>>
         /\ cmd_socks' = cmd_socks
    ELSE send_command(res.win, res.cmds[1])

(***************************************************************************)
(* FanControlApp: the device registry and the two screens.                 *)
(***************************************************************************)

FanNames == <<"Sofa Fan", "Table Fan">>

\* The value None of a slot of device_ids.
NoDevice == "None"

InitDeviceIds == [i \in DOMAIN IpOrder |-> NoDevice]

\* The test of line 544 without its comparison with the id.
EligibleUnassigned(reg, i, device_id) == reg[i] = NoDevice

Eligible(reg, i, device_id) == reg[i] = NoDevice \/ reg[i] = device_id

\* The loop of lines 542-545 without its break.
ObserveDeviceNoBreak(reg, device_id) ==
    IF device_id = "" THEN reg
    ELSE [i \in DOMAIN reg |->
            IF Eligible(reg, i, device_id) THEN device_id ELSE reg[i]]

\* The loop of lines 542-545 writing the first slot whatever it holds.
ObserveDeviceOverwrite(reg, device_id) ==
    IF device_id = "" THEN reg
    ELSE [i \in DOMAIN reg |-> IF i = 1 THEN device_id ELSE reg[i]]

ObserveDevice(reg, device_id) ==
    IF device_id = "" THEN reg
    ELSE [i \in DOMAIN reg |->
            IF /\ Eligible(reg, i, device_id)
               /\ \A j \in 1 .. (i - 1) : ~Eligible(reg, j, device_id)
            THEN device_id
            ELSE reg[i]]

\* The main thread takes the oldest queued state_received signal.
Dispatch ==
    /\ emitted # <<>>
    /\ emitted' = Tail(emitted)
    /\ device_ids' = ObserveDevice(device_ids, Head(emitted).device_id)
    /\ IF screen = "control"
       THEN Perform(update_from_state(win, Head(emitted)))
       ELSE UNCHANGED <<win, wire, attempts, cmd_socks>>
    /\ UNCHANGED <<pc, running, sock, ended, processed_messages, nextId,
                   last_outcome, last_trimmed, watch, pair>>
    /\ UNCHANGED <<heard, probe, late, screen, cli, program, decoded>>

\* A fan is chosen on the selection screen.
SelectFan(i) ==
    /\ screen = "selection"
    /\ win' = set_fan(win, FanNames[i], IpOrder[i])
    /\ screen' = "control"
    /\ wire' = <<>>
    /\ attempts' = <<>>
    /\ UNCHANGED <<listenerVars, heard, device_ids, cmd_socks, cli, program,
                   decoded>>

\* The back button of the control screen.
ShowSelectionScreen ==
    /\ screen = "control"
    /\ screen' = "selection"
    /\ wire' = <<>>
    /\ attempts' = <<>>
    /\ UNCHANGED <<listenerVars, heard, device_ids, win, cmd_socks, cli,
                   program, decoded>>

\* What a user action on the control screen leaves alone.
UserFrame ==
    UNCHANGED <<listenerVars, heard, device_ids, screen, cli, program,
                decoded>>

\* A click on a checkable button flips it before its handler runs.
ClickPower ==
    /\ screen = "control"
    /\ Perform(toggle_power([win EXCEPT !.power_btn = ~win.power_btn]))
    /\ UserFrame

MoveSlider(value) ==
    /\ screen = "control"
    /\ value # win.speed_slider
    /\ Perform(SetSliderValue(win, value))
    /\ UserFrame

ClickSpeedDelta(delta) ==
    /\ screen = "control"
    /\ Perform(change_speed_delta(win, delta))
    /\ UserFrame

ClickLed ==
    /\ screen = "control"
    /\ Perform(toggle_led([win EXCEPT !.led_btn = ~win.led_btn]))
    /\ UserFrame

ClickSleep ==
    /\ screen = "control"
    /\ Perform(toggle_sleep([win EXCEPT !.sleep_btn = ~win.sleep_btn]))
    /\ UserFrame

ClickTimer(value) ==
    /\ screen = "control"
    /\ Perform(set_timer(win, value))
    /\ UserFrame

ClickRefresh ==
    /\ screen = "control"
    /\ Perform(request_state_refresh(win))
    /\ UserFrame

(***************************************************************************)
(* control.py: one run of the script.                                      *)
(***************************************************************************)

TARGET_PORT == 5600

\* Lines of input: the menu choices and the values typed after them.
CliChoices == {<<"1">>, <<"2">>, <<"3">>, <<"4">>, <<"5">>, <<"6">>,
               <<"7">>, <<"9">>}
CliTexts == {<<"-", "1">>, <<"3">>, <<"7">>, <<"o", "n">>, <<"o", "f", "f">>}

\* The menu whose last branch falls through instead of exiting.
CliCommandNoExit(action, text) ==
    IF action = <<"1">> THEN [exit |-> "none", command |-> <<<<"power", JBool(TRUE)>>>>]
    ELSE IF action = <<"2">> THEN [exit |-> "none", command |-> <<<<"power", JBool(FALSE)>>>>]
    ELSE IF action \in {<<"3">>, <<"4">>, <<"6">>}
    THEN IF IsIntText(text)
         THEN [exit |-> "none",
               command |-> <<<<IF action = <<"3">> THEN "speed"
                               ELSE IF action = <<"4">> THEN "speedDelta"
                               ELSE "timer", JInt(ParseInt(text))>>>>]
         ELSE [exit |-> "crashed", command |-> <<>>]
    ELSE IF action = <<"5">> THEN [exit |-> "none", command |-> <<<<"led", JBool(text = <<"o", "n">>)>>>>]
    ELSE IF action = <<"7">> THEN [exit |-> "none", command |-> <<<<"sleep", JBool(text = <<"o", "n">>)>>>>]
    ELSE [exit |-> "none", command |-> <<>>]

\* Lines 38-69: the command of the chosen action, or how the script ends
\* before it has one.
CliCommand(action, text) ==
    IF action = <<"1">> THEN [exit |-> "none", command |-> <<<<"power", JBool(TRUE)>>>>]
    ELSE IF action = <<"2">> THEN [exit |-> "none", command |-> <<<<"power", JBool(FALSE)>>>>]
    ELSE IF action \in {<<"3">>, <<"4">>, <<"6">>}
    THEN IF IsIntText(text)
         THEN [exit |-> "none",
               command |-> <<<<IF action = <<"3">> THEN "speed"
                               ELSE IF action = <<"4">> THEN "speedDelta"
                               ELSE "timer", JInt(ParseInt(text))>>>>]
         ELSE [exit |-> "crashed", command |-> <<>>]
    ELSE IF action = <<"5">> THEN [exit |-> "none", command |-> <<<<"led", JBool(text = <<"o", "n">>)>>>>]
    ELSE IF action = <<"7">> THEN [exit |-> "none", command |-> <<<<"sleep", JBool(text = <<"o", "n">>)>>>>]
    ELSE [exit |-> "invalid", command |-> <<>>]

\* What a run has read when it ends: the action is asked for once the fan
\* is chosen, a value once the action asks for one.
CliRead(fan_choice, action, text, exit) ==
    LET fan_ok == fan_choice \in {<<"1">>, <<"2">>}
        asks == action \in {<<"3">>, <<"4">>, <<"5">>, <<"6">>, <<"7">>}
    IN  [fan_choice |-> fan_choice,
         action |-> IF fan_ok THEN action ELSE <<>>,
         text |-> IF fan_ok /\ asks THEN text ELSE <<>>,
         exit |-> exit]

\* One run of the script, from its first prompt to its exit.  A socket left
\* unclosed by an exception is closed by the exit of the process.
CliRun(fan_choice, action, text) ==
    LET target_ip == IF fan_choice = <<"1">> THEN IpOrder[1] ELSE IpOrder[2]
        chosen == CliCommand(action, text)
    IN  /\ IF fan_choice \notin {<<"1">>, <<"2">>}
           THEN /\ cli' = CliRead(fan_choice, action, text, "invalid")
                /\ wire' = <<>>
                /\ attempts' = <<>>
           ELSE IF chosen.exit # "none"
           THEN /\ cli' = CliRead(fan_choice, action, text, chosen.exit)
                /\ wire' = <<>>
                /\ attempts' = <<>>
           ELSE \E outcome \in SendOutcomes :
                    /\ cli' = CliRead(fan_choice, action, text,
                                      IF outcome = "sent" THEN "sent"
                                      ELSE "crashed")
                    /\ attempts' = <<Attempt(chosen.command, outcome)>>
                    /\ wire' = IF outcome = "sent"
                               THEN <<CommandDatagram(
                                        <<target_ip, TARGET_PORT>>,
                                        json_dumps(chosen.command))>>
                               ELSE <<>>
        /\ UNCHANGED <<listenerVars, heard, device_ids, screen, win,
                       cmd_socks, program, decoded>>

\* No run of the script yet.
InitCli == [fan_choice |-> <<>>, action |-> <<>>, text |-> <<>>,
            exit |-> "none"]

\* Ids whose first two well-formed receipts are observed.
WatchIds == {1, 2}

Init ==
    /\ pc = "new"
    /\ running = TRUE
    /\ sock = "none"
    /\ ended = "none"
    /\ processed_messages = {}
    /\ emitted = <<>>
    /\ nextId = 1
    /\ last_outcome = "none"
    /\ last_trimmed = FALSE
    /\ watch \in WatchIds
    /\ pair = [first |-> FALSE, second |-> FALSE, between |-> FALSE,
               emits |-> 0, trimmed |-> FALSE]
    /\ probe = ProbeOff
    /\ late = 0
    /\ heard = {}
    /\ device_ids = InitDeviceIds
    /\ screen = "selection"
    /\ win = InitWindow
    /\ wire = <<>>
    /\ attempts = <<>>
    /\ cmd_socks = 0
    /\ cli = InitCli
    /\ program = "control_gui.py"
    /\ decoded = [value |-> Value(0, 0), state |-> decode_state_value(Value(0, 0))]

ListenerStep ==
    \/ BindOk
    \/ BindFail
    \/ LoopEnter
    \/ LoopExit
    \/ \E d \in Datagrams : RecvData(d)
    \/ RecvNoData

Next ==
    \/ Start
    \/ ListenerStep
    \/ LoopEscape
    \/ Stop
    \/ Dispatch

Spec == Init /\ [][Next]_vars

CacheListenerStep ==
    \/ BindOk
    \/ BindFail
    \/ LoopEnter
    \/ LoopExit
    \/ \E d \in CacheDatagrams : RecvData(d)
    \/ RecvNoData

NextCache ==
    \/ Start
    \/ CacheListenerStep
    \/ LoopEscape
    \/ Stop
    \/ Dispatch

\* The listener under id-carrying traffic, long enough to fill the cache.
SpecCache == Init /\ [][NextCache]_vars

\* ------------------------------------------------------ the registry

\* Broadcasts of three devices and of one that names none, all decodable.
RegistryDeviceIds == {"", "dev1", "dev2", "dev3"}

RegistryDatagrams ==
    { Datagram("utf8", "object", "string", <<IntField(176), IntField(0)>>,
               EmptyId, dev) : dev \in RegistryDeviceIds }

RegistryListenerStep ==
    \/ BindOk
    \/ BindFail
    \/ LoopEnter
    \/ LoopExit
    \/ \E d \in RegistryDatagrams : \E i \in DOMAIN IpOrder :
           RecvFrom(d, IpOrder[i])
    \/ RecvNoData

NextRegistry ==
    \/ Start
    \/ RegistryListenerStep
    \/ Stop
    \/ Dispatch

\* The listener and the registry under the broadcasts of several devices.
SpecRegistry == Init /\ [][NextRegistry]_vars

\* ------------------------------------------------- the decoded broadcasts

WideField(hi, lo) == [int |-> TRUE, val |-> Value(hi, lo)]

\* state_string values that share their first sub-field or differ in it.
DecodeStateStrings ==
    { <<IntField(176), IntField(0)>>,
      <<IntField(176), IntField(5)>>,
      <<WideField(15, 151), IntField(0)>>,
      <<IntField(5), IntField(176)>> }

DecodeDatagrams ==
    { Datagram("utf8", "object", "string", s, EmptyId, dev) :
        s \in DecodeStateStrings, dev \in DeviceIds }

DecodeListenerStep ==
    \/ BindOk
    \/ BindFail
    \/ LoopEnter
    \/ LoopExit
    \/ \E d \in DecodeDatagrams : RecvData(d)
    \/ RecvNoData

NextDecode ==
    \/ Start
    \/ DecodeListenerStep
    \/ Stop
    \/ Dispatch

\* The listener under decodable broadcasts of several bitfields.
SpecDecode == Init /\ [][NextDecode]_vars

\* ------------------------------------------------------------- the gate

\* Payloads that carry a message id and are refused before the gate (bytes
\* that are not UTF-8, text that is not JSON, an object without
\* state_string), refused by the decoder, or well-formed.
GateDatagrams ==
    UNION { { Datagram("binary", "invalid", "absent", <<>>, m, "dev1"),
              Datagram("utf8", "invalid", "absent", <<>>, m, "dev1"),
              Datagram("utf8", "object", "absent", <<>>, m, "dev1"),
              Datagram("utf8", "object", "string",
                       <<TextField, IntField(0)>>, m, "dev1"),
              Datagram("utf8", "object", "string",
                       <<IntField(176), IntField(0)>>, m, "dev1") } :
            m \in Mids(MaxId) \ {Unhashable} }

GateListenerStep ==
    \/ BindOk
    \/ BindFail
    \/ LoopEnter
    \/ LoopExit
    \/ \E d \in GateDatagrams : RecvData(d)
    \/ RecvNoData

NextGate ==
    \/ Start
    \/ GateListenerStep
    \/ Stop
    \/ Dispatch

\* The listener starts with the refusals of id watch under observation.
InitGate ==
    /\ pc = "new"
    /\ running = TRUE
    /\ sock = "none"
    /\ ended = "none"
    /\ processed_messages = {}
    /\ emitted = <<>>
    /\ nextId = 1
    /\ last_outcome = "none"
    /\ last_trimmed = FALSE
    /\ watch \in WatchIds
    /\ pair = [first |-> FALSE, second |-> FALSE, between |-> FALSE,
               emits |-> 0, trimmed |-> FALSE]
    /\ probe = InitProbe
    /\ late = 0
    /\ heard = {}
    /\ device_ids = InitDeviceIds
    /\ screen = "selection"
    /\ win = InitWindow
    /\ wire = <<>>
    /\ attempts = <<>>
    /\ cmd_socks = 0
    /\ cli = InitCli
    /\ program = "control_gui.py"
    /\ decoded = [value |-> Value(0, 0),
                  state |-> decode_state_value(Value(0, 0))]

\* The listener under payloads that carry an id and fail at every stage.
SpecGate == InitGate /\ [][NextGate]_vars

\* The same observation under id-carrying traffic that fills the cache.
SpecGateCache == InitGate /\ [][NextCache]_vars

\* ------------------------------------------------------------ the codec

\* Halves of the values decoded on their own: every mask of the layout set
\* alone, set with its neighbours, and cleared.
CodecHalves ==
    {0, 1, 7, 8, 15, 16, 32, 128, 176, 255, 256, 32512, 32768, 32776,
     65280, 65535}

Decode(value) ==
    /\ decoded' = [value |-> value, state |-> decode_state_value(value)]
    /\ UNCHANGED <<listenerVars, heard, device_ids, screen, win, wire,
                   attempts, cmd_socks, cli, program>>

NextCodec == \E hi \in CodecHalves : \E lo \in CodecHalves : Decode(Value(hi, lo))

\* decode_state_value applied to values over the whole 32-bit range.
SpecCodec == Init /\ [][NextCodec]_vars

\* ------------------------------------------------------------ the commands

\* The listener with no broadcast on the air.
CommandListenerStep ==
    \/ BindOk
    \/ BindFail
    \/ LoopEnter
    \/ LoopExit
    \/ RecvNoData

UserStep ==
    \/ \E i \in DOMAIN IpOrder : SelectFan(i)
    \/ ShowSelectionScreen
    \/ ClickPower
    \/ \E value \in SliderMin .. SliderMax : MoveSlider(value)
    \/ \E delta \in {0 - 1, 1} : ClickSpeedDelta(delta)
    \/ ClickLed
    \/ ClickSleep
    \/ \E value \in TimerButtons : ClickTimer(value)
    \/ ClickRefresh

GuiStep ==
    /\ program = "control_gui.py"
    /\ \/ Start
       \/ CommandListenerStep
       \/ Stop
       \/ pc # "new" /\ UserStep

CliStep ==
    /\ program = "control.py"
    /\ \E fan_choice \in {<<"1">>, <<"2">>, <<"9">>} :
       \E action \in CliChoices : \E text \in CliTexts :
           CliRun(fan_choice, action, text)

NextCommands == GuiStep \/ CliStep

\* Either script is launched.
InitCommands ==
    /\ pc = "new"
    /\ running = TRUE
    /\ sock = "none"
    /\ ended = "none"
    /\ processed_messages = {}
    /\ emitted = <<>>
    /\ nextId = 1
    /\ last_outcome = "none"
    /\ last_trimmed = FALSE
    /\ watch = 1
    /\ pair = [first |-> FALSE, second |-> FALSE, between |-> FALSE,
               emits |-> 0, trimmed |-> FALSE]
    /\ probe = ProbeOff
    /\ late = 0
    /\ heard = {}
    /\ device_ids = InitDeviceIds
    /\ screen = "selection"
    /\ win = InitWindow
    /\ wire = <<>>
    /\ attempts = <<>>
    /\ cmd_socks = 0
    /\ cli = InitCli
    /\ program \in {"control_gui.py", "control.py"}
    /\ decoded = [value |-> Value(0, 0),
                  state |-> decode_state_value(Value(0, 0))]

\* The commands sent by the window under user actions, and by runs of the
\* script.
SpecCommands == InitCommands /\ [][NextCommands]_vars

\* --------------------------------------- broadcasts on the control screen

\* Broadcasts reaching the control screen: a fan on at speed 0, one at
\* speed 3 with the led off, one reporting speed 7 and a timer of 15.
SyncStateStrings ==
    { <<IntField(176), IntField(0)>>,
      <<IntField(19), IntField(0)>>,
      <<WideField(15, 151), IntField(0)>> }

SyncDatagrams ==
    { Datagram("utf8", "object", "string", s, EmptyId, "dev1") :
        s \in SyncStateStrings }

SyncListenerStep ==
    \/ BindOk
    \/ BindFail
    \/ LoopEnter
    \/ LoopExit
    \/ \E d \in SyncDatagrams : RecvData(d)
    \/ RecvNoData

\* The user moves between the screens and moves the speed.
SyncUserStep ==
    \/ \E i \in DOMAIN IpOrder : SelectFan(i)
    \/ ShowSelectionScreen
    \/ \E value \in SliderMin .. SliderMax : MoveSlider(value)
    \/ \E delta \in {0 - 1, 1} : ClickSpeedDelta(delta)

NextSync ==
    \/ Start
    \/ SyncListenerStep
    \/ Stop
    \/ Dispatch
    \/ pc # "new" /\ SyncUserStep

\* The window under broadcasts, with a user who changes the speed.
SpecSync == Init /\ [][NextSync]_vars

TypeOK ==
    /\ pc \in {"new", "bind", "loop", "recv", "done"}
    /\ running \in BOOLEAN
    /\ sock \in {"none", "open", "closed"}
    /\ ended \in {"none", "stop", "bind", "exception"}
    /\ processed_messages \subseteq 1..MaxCacheId
    /\ Len(emitted) <= MaxQueue
    /\ nextId \in 1..(MaxCacheId + 1)

\* The listener thread is scheduled, and every recvfrom call returns.
FairSpec == Spec /\ WF_vars(ListenerStep)

\* ------------------------------------------------------------ properties

\* C1 as stated: two well-formed broadcasts with the same non-empty
\* message_id, the first received while the id is not cached, with any
\* broadcasts in between, yield exactly one emitted DeviceState.
C1_OnePerPair == pair.second => pair.emits = 1

\* C1 as amended: the same, provided the cache was not cut down between the
\* handling of the first (included) and the receipt of the second.
C1_OnePerPairUntrimmed == (pair.second /\ ~pair.trimmed) => pair.emits = 1

C1_Witness ==
    pair.second /\ ~pair.trimmed /\ pair.between /\ pair.emits = 1

\* C2: a broadcast whose message_id is empty or absent is never discarded
\* as a duplicate and never changes the cache; when it is well-formed it
\* produces an emission, also when the same datagram is received again.
C2_EmptyIdNeverGated ==
    [][\A d \in CacheDatagrams :
         (RecvData(d) /\ d.mid = EmptyId /\ d.enc # "binary"
            /\ d.json = "object" /\ d.ss_type # "absent")
         => /\ processed_messages' = processed_messages
            /\ last_outcome' # "duplicate"
            /\ (d.ss_type = "string" /\ d.ss[1].int)
                 => emitted' = Append(emitted, DeviceState(d))]_vars

\* Two identical emissions are queued although no id was ever cached.
C2_Witness ==
    /\ Len(emitted) = 2
    /\ emitted[1] = emitted[2]
    /\ nextId = 1
    /\ processed_messages = {}
    /\ last_outcome = "emitted"

C4_RecentKept ==
    (nextId = HighWater + 2 /\ last_trimmed)
    => /\ Cardinality(processed_messages) <= KeepCount
       /\ ((HighWater + 2 - KeepCount)..(HighWater + 1))
             \subseteq processed_messages

Qualifies(d, cache) ==
    /\ d.enc # "binary"
    /\ d.json = "object"
    /\ d.ss_type = "string"
    /\ d.mid # Unhashable
    /\ (d.mid = EmptyId \/ d.mid \notin cache)
    /\ d.ss[1].int

\* C6: the emitted DeviceStates are, in receipt order, exactly the received
\* payloads that frame, pass the gate and decode: handling a payload appends
\* its DeviceState when it qualifies and nothing otherwise, and no other
\* step adds to, reorders or drops from the queue except by taking its head.
C6_EmitsExactlyQualifying ==
    [][/\ \A d \in Datagrams :
            RecvData(d)
            => emitted' = IF Qualifies(d, processed_messages)
                          THEN Append(emitted, DeviceState(d))
                          ELSE emitted
       /\ (\A d \in Datagrams : ~RecvData(d))
            => \/ emitted' = emitted
               \/ emitted # <<>> /\ emitted' = Tail(emitted)]_vars

\* Two different DeviceStates are queued in the order of their receipt.
C6_Witness ==
    /\ Len(emitted) = 2
    /\ emitted[1].device_id = ""
    /\ emitted[2].device_id = "dev1"
    /\ last_outcome = "emitted"

\* C7: no received payload ends the listener: once it is handled the thread
\* is back at the loop test with its socket open and run() has not ended.
C7_DatagramNeverTerminates ==
    [][(\E d \in Datagrams : RecvData(d))
         => pc' = "loop" /\ sock' = "open" /\ ended' = "none"]_vars

\* After a payload that raised, the thread is waiting for the next one.
C7_Witness ==
    /\ last_outcome = "error"
    /\ pc = "recv"
    /\ sock = "open"
    /\ running

\* C8: after a stop request on a running listener the loop eventually exits
\* and the listener is stopped with its socket closed.
C8_StopTerminates ==
    (pc \in {"loop", "recv"} /\ ~running) ~> (pc = "done" /\ sock = "closed")

C8_Witness ==
    /\ pc = "done"
    /\ ended = "stop"
    /\ sock = "closed"
    /\ ~running
    /\ last_outcome = "emitted"

\* C9: whenever run() has ended, by a stop request, a bind failure or an
\* exception leaving the loop, the socket it opened is closed.
C9_ClosedWhenEnded == (pc = "done") => (sock = "closed" /\ ended # "none")

C9_Witness == pc = "done" /\ ended = "exception" /\ sock = "closed"

\* Stopped: not started, starting or ended.  Running: in the receive loop
\* with the flag up.  Stopping: in the receive loop with the flag down.
Lifecycle ==
    IF pc \in {"loop", "recv"}
    THEN IF running THEN "Running" ELSE "Stopping"
    ELSE "Stopped"

\* C10 as stated: the lifecycle only takes Stopped -> Running,
\* Running -> Stopping and Stopping -> Stopped.
C10_OnlyThreeTransitions ==
    [][Lifecycle' # Lifecycle
         => <<Lifecycle, Lifecycle'>> \in
              { <<"Stopped", "Running">>, <<"Running", "Stopping">>,
                <<"Stopping", "Stopped">> }]_vars

\* C10 as amended: besides those three, the lifecycle takes Stopped ->
\* Stopping when stop was requested before the bind completed and Running ->
\* Stopped when an exception leaves the loop; a listener for which stop has
\* been requested is never Running again, and one that has ended stays
\* Stopped.
C10_Lifecycle ==
    [][/\ Lifecycle' # Lifecycle
            => \/ /\ Lifecycle = "Stopped" /\ Lifecycle' = "Running"
                  /\ pc = "bind" /\ running
               \/ /\ Lifecycle = "Running" /\ Lifecycle' = "Stopping"
                  /\ ~running'
               \/ /\ Lifecycle = "Stopping" /\ Lifecycle' = "Stopped"
                  /\ sock' = "closed"
               \/ /\ Lifecycle = "Stopped" /\ Lifecycle' = "Stopping"
                  /\ pc = "bind" /\ ~running
               \/ /\ Lifecycle = "Running" /\ Lifecycle' = "Stopped"
                  /\ ended' = "exception" /\ sock' = "closed"
       /\ ~running => Lifecycle' # "Running"
       /\ pc = "done" => Lifecycle' = "Stopped"]_vars

\* Stopped after having been Running and then Stopping.
C10_Witness ==
    /\ pc = "done"
    /\ ended = "stop"
    /\ ~running
    /\ last_outcome # "none"

\* C11 as stated: a listener whose bind failed at startup has handled no
\* datagram and emitted nothing, and the failure is shown to the user of the
\* window as an error.
C11_BindFailureSurfaced ==
    (ended = "bind") =>
        /\ last_outcome = "none"
        /\ emitted = <<>>
        /\ win.status_label = "Error"

\* C12: a command send that fails at the socket level shows the error on
\* the status label and is not tried again (one attempt, no datagram); the
\* window can send its next command, and the step of the window that ends
\* in the failure leaves the listener as it was.
FailedSend == attempts # <<>> /\ attempts[1].outcome # "sent"

C12_FailedSendReported ==
    /\ [](program = "control_gui.py" /\ FailedSend =>
            /\ win.status_label = "Error"
            /\ Len(attempts) = 1
            /\ wire = <<>>
            /\ screen = "control"
            /\ ENABLED (ClickPower /\ attempts'[1].outcome = "sent"))
    /\ [][(FailedSend' /\ <<win, attempts, cmd_socks>>' #
                           <<win, attempts, cmd_socks>>)
              => UNCHANGED listenerVars]_vars

C12_Witness ==
    /\ FailedSend
    /\ attempts[1].outcome = "sendto_error"
    /\ win.status_label = "Error"
    /\ pc = "recv"
    /\ running

\* C13: a command send that goes through puts exactly one datagram on the
\* wire, addressed to the selected fan's IP and the command port 5600, whose
\* body read back as JSON is the command: the same keys with the same
\* values.
SelectedIp ==
    IF program = "control_gui.py" THEN win.current_ip
    ELSE IF cli.fan_choice = <<"1">> THEN "192.168.29.14"
    ELSE "192.168.29.15"

SentOne == attempts # <<>> /\ attempts[1].outcome = "sent"

C13_OneDatagramPerSend ==
    SentOne =>
        /\ Len(attempts) = 1
        /\ Len(wire) = 1
        /\ wire[1].to = <<SelectedIp, 5600>>
        /\ SelectedIp \in {"192.168.29.14", "192.168.29.15"}
        /\ json_loads(wire[1].body) = attempts[1].command

C13_Witness ==
    /\ SentOne
    /\ program = "control_gui.py"
    /\ wire[1].to = <<"192.168.29.15", 5600>>
    /\ json_loads(wire[1].body) = <<<<"speed", JInt(6)>>>>

\* C14: no command datagram is ever sent whose JSON body is the empty
\* object, whatever the user does in the window and whatever is typed at the
\* prompts of the script.
RecognizedKeys == {"power", "speed", "speedDelta", "led", "timer", "sleep"}

Bit(n, half) == (half \div n) % 2 = 1

C15_DecodeLayout ==
    LET hi == decoded.value.hi
        lo == decoded.value.lo
        cool == Bit(8, lo)
        warm == Bit(32768, lo)
    IN  decoded.state =
            [power |-> Bit(16, lo),
             led |-> Bit(32, lo),
             sleep |-> Bit(128, lo),
             speed |-> lo % 8,
             timer |-> hi % 16,
             timer_elapsed_mins |-> 4 * (hi \div 256),
             brightness |-> (lo \div 256) % 128,
             cool |-> cool,
             warm |-> warm,
             color_mode |-> IF cool /\ warm THEN "Daylight"
                            ELSE IF cool THEN "Cool"
                            ELSE IF warm THEN "Warm"
                            ELSE "Off"]

C15_Witness ==
    /\ decoded.value = Value(65535, 32776)
    /\ decoded.state.timer = 15
    /\ decoded.state.timer_elapsed_mins = 1020
    /\ decoded.state.color_mode = "Daylight"

\* C16 as stated: the DeviceState emitted for a broadcast carries the
\* decoding of the first comma-separated sub-field of state_string and of
\* nothing else, the device_id of the envelope (empty when it has none) and,
\* as raw_state, the whole state_string; for "176,0" it reports power and
\* led on, speed 0, sleep, cool and warm off and the colour mode Off.
StateKeys ==
    {"power", "led", "sleep", "speed", "timer", "timer_elapsed_mins",
     "brightness", "cool", "warm", "color_mode"}

\* The emitted record is built from the first sub-field, the envelope and
\* the whole state_string.
BuiltFrom(e, d) ==
    LET first == decode_state_value(d.ss[1].val)
    IN  /\ DOMAIN e = StateKeys \cup {"device_id", "raw_state"}
        /\ \A k \in StateKeys : e[k] = first[k]
        /\ e.device_id = d.dev
        /\ e.raw_state = d.ss

C16_EmitsFirstSubfieldSleepOff ==
    [][\A d \in DecodeDatagrams :
          (RecvData(d) /\ Len(emitted') > Len(emitted)) =>
              LET e == emitted'[Len(emitted')]
              IN  /\ BuiltFrom(e, d)
                  /\ d.ss = <<IntField(176), IntField(0)>> =>
                        /\ e.power /\ e.led /\ e.speed = 0
                        /\ ~e.sleep /\ ~e.cool /\ ~e.warm
                        /\ e.color_mode = "Off"]_vars

\* C16 as amended: the same, except that for "176,0", whose bit 7 is set,
\* the record reports power, led and sleep on, speed 0, cool and warm off
\* and the colour mode Off.
C16_EmitsFirstSubfield ==
    [][\A d \in DecodeDatagrams :
          (RecvData(d) /\ Len(emitted') > Len(emitted)) =>
              LET e == emitted'[Len(emitted')]
              IN  /\ BuiltFrom(e, d)
                  /\ d.ss = <<IntField(176), IntField(0)>> =>
                        /\ e.power /\ e.led /\ e.speed = 0
                        /\ e.sleep /\ ~e.cool /\ ~e.warm
                        /\ e.color_mode = "Off"]_vars

C16_Witness ==
    /\ emitted # <<>>
    /\ emitted[1].raw_state = <<IntField(176), IntField(5)>>
    /\ emitted[1].device_id = ""
    /\ emitted[1].power
    /\ emitted[1].sleep
    /\ emitted[1].speed = 0

\* C17: the delivery of a DeviceState changes at most one slot of the
\* registry: none when its device_id is empty, and otherwise only the first
\* slot, in the order of the IPs, that is unassigned or holds that very id.
C17_AtMostOneSlot ==
    [][Dispatch =>
          LET id == Head(emitted).device_id
              changed == {i \in DOMAIN device_ids :
                              device_ids'[i] # device_ids[i]}
              fits(i) == device_ids[i] = NoDevice \/ device_ids[i] = id
          IN  /\ Cardinality(changed) <= 1
              /\ id = "" => changed = {}
              /\ \A i \in changed :
                    /\ device_ids'[i] = id
                    /\ fits(i)
                    /\ \A j \in 1 .. (i - 1) : ~fits(j)]_vars

C17_Witness ==
    /\ device_ids[1] = "dev1"
    /\ device_ids[2] = NoDevice
    /\ <<IpOrder[1], "">> \in heard
    /\ emitted = <<>>

\* C18: once a slot of the registry holds a device_id, no step changes what
\* it holds, whatever broadcasts are observed afterwards.
C18_FirstWriteWins ==
    [][\A i \in DOMAIN device_ids :
          device_ids[i] # NoDevice => device_ids'[i] = device_ids[i]]_vars

C18_Witness ==
    /\ device_ids = <<"dev1", "dev2">>
    /\ \E i \in DOMAIN IpOrder : <<IpOrder[i], "dev3">> \in heard
    /\ emitted = <<>>

\* C19 as stated: whenever the slot of an IP holds a device_id, a broadcast
\* carrying that device_id was received from that IP address.
C19_SlotIdHeardFromItsIp ==
    \A i \in DOMAIN device_ids :
        device_ids[i] # NoDevice => <<IpOrder[i], device_ids[i]>> \in heard

\* C20 as stated: once a command send has returned, with the datagram sent
\* or with a socket error, no socket that it opened is still open.
C20_NoSocketLeftOpen == attempts # <<>> => cmd_socks = 0

\* C21 as stated: every command datagram sent, by the window or by the
\* script, carries a speed in 0..6, a speedDelta in -1..5 other than 0 and a
\* timer in 0..4.
C21_CallerBounds ==
    \A i \in DOMAIN wire :
        LET command == json_loads(wire[i].body)
        IN  \A m \in DOMAIN command :
                LET key == command[m][1]
                    n == command[m][2].n
                IN  /\ key = "speed" => n \in 0 .. 6
                    /\ key = "speedDelta" => n \in ((0 - 1) .. 5) \ {0}
                    /\ key = "timer" => n \in 0 .. 4

\* C22: a payload refused by the framing (bytes that are not UTF-8, text
\* that is not JSON, an object without state_string) changes neither the
\* cache nor the queue of emissions, whatever message id it carries; and
\* when such a payload carried an id that was not cached, the next
\* well-formed broadcast with that id, no other receipt of the id having
\* reached the gate in between, is emitted.
C22_FramingLeavesCache ==
    /\ [][\A d \in GateDatagrams :
            (/\ RecvData(d)
             /\ d.enc = "binary" \/ d.json = "invalid"
                    \/ d.ss_type = "absent")
            => /\ processed_messages' = processed_messages
               /\ emitted' = emitted]_vars
    /\ []((probe.bad = "frame" /\ probe.next # "none" /\ ~probe.gated)
              => probe.next = "emitted")

C22_Witness ==
    /\ probe.bad = "frame"
    /\ probe.next = "emitted"
    /\ ~probe.gated
    /\ watch \in processed_messages

\* C23 as stated: a broadcast whose first sub-field is not an integer emits
\* nothing; when its message id was not cached the id is in the cache from
\* then on, and the next well-formed broadcast with that id is discarded.
C23_GateBeforeDecode ==
    /\ [][\A d \in CacheDatagrams :
            (RecvData(d) /\ ~d.ss[1].int) => emitted' = emitted]_vars
    /\ [](probe.bad = "decode" =>
            /\ probe.next = "none" => watch \in processed_messages
            /\ probe.next # "emitted")

\* C23 as amended: the same, as long as the cache has not been cut down
\* since the refused broadcast was handled.
C23_GateBeforeDecodeUntrimmed ==
    /\ [][\A d \in CacheDatagrams :
            (RecvData(d) /\ ~d.ss[1].int) => emitted' = emitted]_vars
    /\ []((probe.bad = "decode" /\ ~probe.trimmed) =>
            /\ probe.next = "none" => watch \in processed_messages
            /\ probe.next # "emitted")

C23_Witness ==
    /\ probe.bad = "decode"
    /\ probe.next = "discarded"
    /\ ~probe.trimmed
    /\ last_outcome = "duplicate"

\* C24: the delivery of a received state to the control screen sends no
\* command datagram and attempts none, whatever the state and whatever the
\* screen showed; a step that attempts a send takes nothing from the queue
\* of received states.
C24_DeliverySendsNothing ==
    /\ [][(Len(emitted') < Len(emitted) /\ screen = "control")
            => /\ wire' = <<>>
               /\ attempts' = <<>>
               /\ cmd_socks' = cmd_socks]_vars
    /\ [][(attempts' # <<>> /\ attempts' # attempts)
            => emitted' = emitted]_vars

C24_Witness ==
    /\ screen = "control"
    /\ win.status_label = "Synchronized"
    /\ win.current_speed = 7
    /\ win.speed_slider = 6
    /\ win.current_timer = 15
    /\ attempts = <<>>
    /\ wire = <<>>

\* C25: at most one DeviceState is emitted after stop() has been called,
\* and none once the socket of the listener is closed.
C25_AtMostOneAfterStop ==
    /\ [](late <= 1)
    /\ [][sock = "closed" => Len(emitted') <= Len(emitted)]_vars

C25_Witness ==
    /\ late = 1
    /\ ~running
    /\ pc = "done"
    /\ sock = "closed"

\* C26: the assigned slots of the registry are a prefix of the order of the
\* IPs, no device_id is held by two slots, and the delivery of a device_id
\* that no slot holds while every slot is assigned changes no slot.
C26_PrefixNoDuplicate ==
    /\ [](/\ \A i \in DOMAIN device_ids : \A j \in DOMAIN device_ids :
                (i < j /\ device_ids[j] # NoDevice)
                    => /\ device_ids[i] # NoDevice
                       /\ device_ids[i] # device_ids[j])
    /\ [][(/\ Len(emitted') < Len(emitted)
           /\ \A i \in DOMAIN device_ids :
                 /\ device_ids[i] # NoDevice
                 /\ device_ids[i] # Head(emitted).device_id)
            => device_ids' = device_ids]_vars

C26_Witness ==
    /\ device_ids = <<"dev2", "dev3">>
    /\ \E i \in DOMAIN IpOrder : <<IpOrder[i], "dev1">> \in heard
    /\ emitted = <<>>

====
